---- MODULE Spec2Model ----
(***************************************************************************)
(* A model of src-tauri/src/main.rs of invoice_merge_tool: the merge       *)
(* orchestrator (merge_invoices), the page synthesizer                     *)
(* (convert_image_to_pdf, flatten_transparent) and the object-graph merger *)
(* (merge_pdf_files).                                                      *)
(***************************************************************************)
EXTENDS Integers, Sequences, FiniteSets, TLC

(* Bounds of the model. *)
MaxObjects == 4
MaxSources == 2
MaxFiles == 2

VARIABLES
    (* merge_pdf_files *)
    mpc,                \* position in merge_pdf_files ("idle" when it is not the entry)
    files,              \* files: the source paths handed to merge_pdf_files
    loaded,             \* the documents Document::load returned so far, in order
    watermarks,         \* the values max_id has taken, oldest first
    documents_pages,    \* Vec<(ObjectId, Object)>
    documents_objects,  \* BTreeMap<ObjectId, Object>
    max_id,
    processed,
    catalog_object,     \* Option<(ObjectId, Object)>: <<>> or <<id, obj>>
    pages_object,       \* Option<(ObjectId, Object)>: <<>> or <<id, obj>>
    document,           \* the output Document
    merge_result,       \* "none" while running, then "Ok", "NoFiles" or "Pdf"
    (* merge_invoices *)
    pc,                 \* position in merge_invoices ("idle" when it is not the entry)
    req,                \* the MergeRequest (req.files is sorted in place)
    index,              \* the files of req.files the loop has gone through
    pdf_inputs,         \* Vec<PathBuf>
    temp_paths,         \* Vec<TempPath>
    failed,             \* Vec<String>
    temp_files,         \* the temporary files that exist on disk
    created,            \* every temporary file this run has created
    ret,                \* what merge_invoices returned
    (* both *)
    output_file,        \* "absent" or "written": the output document on disk
    (* convert_image_to_pdf *)
    ipc,                \* position in convert_image_to_pdf ("idle" when it is not the entry)
    decoded,            \* the DynamicImage load_dynamic_image returned
    image,              \* the image after flatten_transparent
    placement           \* display_w, display_h, offset_x, offset_y

mergeVars == <<mpc, files, loaded, watermarks, documents_pages, documents_objects,
               max_id, processed, catalog_object, pages_object, document,
               merge_result>>

invVars == <<pc, req, index, pdf_inputs, temp_paths, failed, temp_files, created, ret>>

imgVars == <<ipc, decoded, image, placement>>

vars == <<mergeVars, invVars, output_file, imgVars>>

(***************************************************************************)
(* Objects of a PDF object graph.  An object is a dictionary or not (a     *)
(* stream carries a dictionary with a Type too, and as_dict() fails on     *)
(* it); its role is what type_name().unwrap_or("") yields, "Other"         *)
(* standing for every name the match arms do not list.                     *)
(***************************************************************************)
Roles == {"Catalog", "Pages", "Page", "Outlines", "Other"}

ObjectKinds ==
    {[role |-> r, isDict |-> TRUE] : r \in Roles}
        \cup {[role |-> r, isDict |-> FALSE] : r \in {"Catalog", "Pages", "Page"}}

(* The documents of at most n objects, each a sequence of object kinds in *)
(* the order of their identifiers.                                        *)
Docs(n) == UNION {[1..k -> ObjectKinds] : k \in 0..n}

(* Object k.p: the p-th object of the k-th source, as loaded. *)
MkObject(kind, k, p) ==
    [role     |-> kind.role,
     isDict   |-> kind.isDict,
     origin   |-> <<k, p>>,
     content  |-> {<<k, p>>},
     Parent   |-> 0,
     Kids     |-> <<>>,
     Count    |-> 0,
     Pages    |-> 0,
     Outlines |-> kind.role = "Catalog"]

EmptyMap == [i \in {} |-> 0]

(* doc.renumber_objects_with(start): identifiers start, start+1, ... in the *)
(* order of the old ones; doc.max_id is the last one given.                 *)
RenumberObjectsWith(doc, k, start) ==
    [objects |-> [id \in start..(start + Len(doc) - 1) |->
                     MkObject(doc[id - start + 1], k, id - start + 1)],
     max_id  |-> start + Len(doc) - 1]

(* A watermark that stays on the last identifier given. *)
NextMaxId_Stale(doc_max_id) == doc_max_id

(* max_id = doc.max_id + 1 *)
NextMaxId(doc_max_id) == doc_max_id + 1

(* The inner loop over doc.objects.iter(), identifiers ascending: a Page is *)
(* pushed on documents_pages, anything else inserted in documents_objects.  *)
RECURSIVE CollectObjects(_, _, _, _, _)
CollectObjects(objs, id, last, pages, table) ==
    IF id > last THEN [documents_pages |-> pages, documents_objects |-> table]
    ELSE IF objs[id].role = "Page"
         THEN CollectObjects(objs, id + 1, last, Append(pages, <<id, objs[id]>>), table)
         ELSE CollectObjects(objs, id + 1, last, pages, (id :> objs[id]) @@ table)

(* One iteration of `for path in files` after a successful Document::load. *)
LoadInto(st, doc) ==
    LET d == RenumberObjectsWith(doc, st.processed + 1, st.max_id)
        c == CollectObjects(d.objects, st.max_id, d.max_id,
                            st.documents_pages, st.documents_objects)
    IN  [documents_pages   |-> c.documents_pages,
         documents_objects |-> c.documents_objects,
         max_id            |-> NextMaxId(d.max_id),
         processed         |-> st.processed + 1]

MergeStart ==
    [documents_pages |-> <<>>, documents_objects |-> EmptyMap,
     max_id |-> 1, processed |-> 0]

(* dictionary.extend(old_dictionary): the entries of both. *)
ExtendDictionary(dictionary, old_dictionary) ==
    [dictionary EXCEPT !.content = dictionary.content \cup old_dictionary.content]

(* A "Pages" arm that keeps the first Pages object and nothing of the others. *)
PagesArm_KeepFirst(po, id, obj) ==
    IF ~obj.isDict THEN po
    ELSE IF po = <<>> THEN <<id, obj>>
    ELSE po

(* The "Pages" arm: the dictionary of this object extended by the one kept *)
(* so far, kept under this object's identifier.                            *)
PagesArm(po, id, obj) ==
    IF ~obj.isDict THEN po
    ELSE IF po = <<>> THEN <<id, obj>>
    ELSE IF po[2].isDict THEN <<id, ExtendDictionary(obj, po[2])>>
    ELSE <<id, obj>>

(* The "Catalog" arm: only the first is kept. *)
CatalogArm(co, id, obj) ==
    IF co = <<>> THEN <<id, obj>> ELSE co

(* The loop over documents_objects.into_iter(), identifiers ascending. *)
RECURSIVE ClassifyObjects(_, _, _, _)
ClassifyObjects(table, id, last, acc) ==
    IF id > last THEN acc
    ELSE IF id \notin DOMAIN table THEN ClassifyObjects(table, id + 1, last, acc)
    ELSE LET obj == table[id] IN
         CASE obj.role = "Catalog" ->
                ClassifyObjects(table, id + 1, last,
                    [acc EXCEPT !.catalog_object = CatalogArm(@, id, obj)])
           [] obj.role = "Pages" ->
                ClassifyObjects(table, id + 1, last,
                    [acc EXCEPT !.pages_object = PagesArm(@, id, obj)])
           [] obj.role = "Outlines" ->
                ClassifyObjects(table, id + 1, last, acc)
           [] OTHER ->
                ClassifyObjects(table, id + 1, last,
                    [acc EXCEPT !.objects = (id :> obj) @@ @])

(* dictionary.set("Parent", page_id) *)
SetParent(obj, page_id) == [obj EXCEPT !.Parent = page_id]

(* The loop over documents_pages: a page that is a dictionary is inserted *)
(* with its Parent set; one that is not is skipped.                       *)
RECURSIVE InsertPages(_, _, _, _)
InsertPages(pages, i, page_id, objects) ==
    IF i > Len(pages) THEN objects
    ELSE IF pages[i][2].isDict
         THEN InsertPages(pages, i + 1, page_id,
                          (pages[i][1] :> SetParent(pages[i][2], page_id)) @@ objects)
         ELSE InsertPages(pages, i + 1, page_id, objects)

(* The Kids of the Pages root: a reference to each collected page. *)
KidsOf(pages) == [i \in 1..Len(pages) |-> pages[i][1]]

(* Count and Kids set on the Pages root. *)
SetCountAndKids(obj, pages) ==
    [obj EXCEPT !.Count = Len(pages), !.Kids = KidsOf(pages)]

(* Pages set and Outlines removed on the Catalog. *)
SetPagesOfCatalog(obj, page_id) ==
    [obj EXCEPT !.Pages = page_id, !.Outlines = FALSE]

(* document.renumber_objects(): identifiers 1..n in the order of the old   *)
(* ones; a reference to a renumbered object follows it, any other is kept. *)
NewId(objects, id) ==
    IF id \in DOMAIN objects
    THEN Cardinality({j \in DOMAIN objects : j <= id})
    ELSE id

RenumberObjects(doc) ==
    LET old == doc.objects
        n   == Cardinality(DOMAIN old)
        OldOf(new) == CHOOSE j \in DOMAIN old : NewId(old, j) = new
        Fix(obj) == [obj EXCEPT !.Parent = NewId(old, @),
                                !.Pages  = NewId(old, @),
                                !.Kids   = [i \in 1..Len(@) |-> NewId(old, @[i])]]
    IN  [objects |-> [new \in 1..n |-> Fix(old[OldOf(new)])],
         Root    |-> NewId(old, doc.Root),
         max_id  |-> n]

EmptyDocument == [objects |-> EmptyMap, Root |-> 0, max_id |-> 0]

(* Lines 488-524: the output document built from the canonical roots. *)
BuildDocument(objects, pages, po, co) ==
    LET page_id    == po[1]
        catalog_id == co[1]
        o1 == InsertPages(pages, 1, page_id, objects)
        o2 == IF po[2].isDict
              THEN (page_id :> SetCountAndKids(po[2], pages)) @@ o1 ELSE o1
        o3 == IF co[2].isDict
              THEN (catalog_id :> SetPagesOfCatalog(co[2], page_id)) @@ o2 ELSE o2
    IN  RenumberObjects([objects |-> o3, Root |-> catalog_id,
                         max_id |-> Cardinality(DOMAIN o3)])

(* The canonical roots and the other retained objects. *)
Classified(table, last) ==
    ClassifyObjects(table, 1, last,
        [catalog_object |-> <<>>, pages_object |-> <<>>, objects |-> EmptyMap])

(***************************************************************************)
(* merge_pdf_files as a state machine.                                     *)
(***************************************************************************)
(* convert_image_to_pdf is not the entry of this run. *)
NoPlacement == [set |-> FALSE]

ImgIdle ==
    /\ ipc = "idle"
    /\ decoded = [variant |-> "ImageRgb8", width |-> 1, height |-> 1, pixel |-> <<0, 0, 0>>]
    /\ image = decoded
    /\ placement = NoPlacement

(* merge_invoices is not the entry of this run. *)
NoReturn == [kind |-> "none"]

InvIdle ==
    /\ pc = "idle"
    /\ req = [folder |-> "ok", files |-> <<>>, sort_mode |-> "Custom",
              output_file_name |-> "None"]
    /\ index = 0
    /\ pdf_inputs = <<>>
    /\ temp_paths = <<>>
    /\ failed = <<>>
    /\ temp_files = {}
    /\ created = {}
    /\ ret = NoReturn

MergeInit ==
    /\ mpc = "start"
    /\ files \in {[i \in 1..n |-> i] : n \in 0..MaxSources}
    /\ loaded = <<>>
    /\ watermarks = <<1>>
    /\ documents_pages = <<>>
    /\ documents_objects = EmptyMap
    /\ max_id = 1
    /\ processed = 0
    /\ catalog_object = <<>>
    /\ pages_object = <<>>
    /\ document = EmptyDocument
    /\ merge_result = "none"
    /\ output_file = "absent"
    /\ InvIdle
    /\ ImgIdle

(* if files.is_empty() { return Err(NoFiles) } *)
MergeBegin ==
    /\ mpc = "start"
    /\ IF files = <<>>
       THEN mpc' = "done" /\ merge_result' = "NoFiles"
       ELSE mpc' = "loop" /\ merge_result' = merge_result
    /\ UNCHANGED <<files, loaded, watermarks, documents_pages, documents_objects,
                   max_id, processed, catalog_object, pages_object, document>>
    /\ UNCHANGED <<invVars, output_file, imgVars>>

(* Document::load(path) fails: the run ends with MergeError::Pdf. *)
LoadFails ==
    /\ mpc = "loop"
    /\ processed < Len(files)
    /\ mpc' = "done"
    /\ merge_result' = "Pdf"
    /\ UNCHANGED <<files, loaded, watermarks, documents_pages, documents_objects,
                   max_id, processed, catalog_object, pages_object, document>>
    /\ UNCHANGED <<invVars, output_file, imgVars>>

(* One source loaded, renumbered and collected. *)
LoadSource ==
    /\ mpc = "loop"
    /\ processed < Len(files)
    /\ \E doc \in Docs(MaxObjects - (max_id - 1)) :
          \E st \in {LoadInto([documents_pages |-> documents_pages,
                               documents_objects |-> documents_objects,
                               max_id |-> max_id, processed |-> processed], doc)} :
              /\ loaded' = Append(loaded, doc)
              /\ documents_pages' = st.documents_pages
              /\ documents_objects' = st.documents_objects
              /\ max_id' = st.max_id
              /\ watermarks' = Append(watermarks, st.max_id)
              /\ processed' = st.processed
    /\ UNCHANGED <<mpc, files, catalog_object, pages_object, document, merge_result>>
    /\ UNCHANGED <<invVars, output_file, imgVars>>

(* A zero-page check that never fires. *)
NoPagesCollected_Never(pages) == FALSE

(* if documents_pages.is_empty() *)
NoPagesCollected(pages) == pages = <<>>

(* Lines 455-530: the zero-page check, the canonical roots, the output     *)
(* document and its save, which succeeds or not (saved).                   *)
AssembleResult(st, saved) ==
    IF NoPagesCollected(st.documents_pages)
    THEN [result |-> "NoFiles", catalog_object |-> <<>>, pages_object |-> <<>>,
          document |-> EmptyDocument, written |-> FALSE]
    ELSE LET c == Classified(st.documents_objects, st.max_id - 1) IN
         IF c.pages_object = <<>> \/ c.catalog_object = <<>>
         THEN [result |-> "Pdf", catalog_object |-> c.catalog_object,
               pages_object |-> c.pages_object,
               document |-> [EmptyDocument EXCEPT !.objects = c.objects],
               written |-> FALSE]
         ELSE [result |-> IF saved THEN "Ok" ELSE "Pdf",
               catalog_object |-> c.catalog_object,
               pages_object |-> c.pages_object,
               document |-> BuildDocument(c.objects, st.documents_pages,
                                          c.pages_object, c.catalog_object),
               written |-> saved]

Assemble ==
    /\ mpc = "loop"
    /\ processed = Len(files)
    /\ mpc' = "done"
    /\ \E r \in {AssembleResult([documents_pages |-> documents_pages,
                                    documents_objects |-> documents_objects,
                                    max_id |-> max_id, processed |-> processed], saved) :
                        saved \in BOOLEAN} :
              /\ merge_result' = r.result
              /\ catalog_object' = r.catalog_object
              /\ pages_object' = r.pages_object
              /\ document' = r.document
              /\ output_file' = IF r.written THEN "written" ELSE output_file
    /\ UNCHANGED <<files, loaded, watermarks, documents_pages, documents_objects,
                   max_id, processed>>
    /\ UNCHANGED <<invVars, imgVars>>

MergeNext == MergeBegin \/ LoadFails \/ LoadSource \/ Assemble

SpecMerge == MergeInit /\ [][MergeNext]_vars

(***************************************************************************)
(* merge_invoices.  A file of the request carries what the request says of *)
(* it (file_name, ext, modified_ts) and, under path, what the file system  *)
(* and the decoders answer for its path.                                   *)
(***************************************************************************)
IMAGE_EXTENSIONS == {"jpg", "jpeg", "png", "bmp", "gif", "tiff", "webp", "heic"}

(* to_ascii_lowercase on the extensions of the model. *)
ToAsciiLowercase(ext) == IF ext = "PDF" THEN "pdf" ELSE ext

(* to_lowercase on the file names of the model, and the order of strings. *)
ToLowercase(name) == IF name = "B" THEN "b" ELSE name
StringOrder == [a |-> 1, b |-> 2, B |-> 0]

Dict(role) == [role |-> role, isDict |-> TRUE]
OnePageDoc == <<Dict("Catalog"), Dict("Pages"), Dict("Page")>>
NoPageDoc == <<Dict("Catalog"), Dict("Pages")>>
(* What printpdf saves for one image: a one-page document. *)
SynthesizedDoc == <<Dict("Catalog"), Dict("Pages"), Dict("Page"), Dict("Other")>>

PathFacts(exists, canon_ok, inside, decode_ok, temp_ok, save_ok, readable, doc) ==
    [exists |-> exists, canon_ok |-> canon_ok, inside |-> inside,
     decode_ok |-> decode_ok, temp_ok |-> temp_ok, save_ok |-> save_ok,
     readable |-> readable, doc |-> doc]

GoodPath(doc) == PathFacts(TRUE, TRUE, TRUE, TRUE, TRUE, TRUE, TRUE, doc)

FileKinds ==
    { [ext |-> "pdf", path |-> PathFacts(FALSE, FALSE, FALSE, TRUE, TRUE, TRUE, FALSE, <<>>)],
      [ext |-> "pdf", path |-> PathFacts(TRUE, FALSE, FALSE, TRUE, TRUE, TRUE, TRUE, OnePageDoc)],
      [ext |-> "pdf", path |-> PathFacts(TRUE, TRUE, FALSE, TRUE, TRUE, TRUE, TRUE, OnePageDoc)],
      [ext |-> "txt", path |-> GoodPath(<<>>)],
      [ext |-> "png", path |-> PathFacts(TRUE, TRUE, TRUE, FALSE, TRUE, TRUE, TRUE, <<>>)],
      [ext |-> "png", path |-> PathFacts(TRUE, TRUE, TRUE, TRUE, FALSE, TRUE, TRUE, <<>>)],
      [ext |-> "png", path |-> PathFacts(TRUE, TRUE, TRUE, TRUE, TRUE, FALSE, TRUE, <<>>)],
      [ext |-> "png", path |-> GoodPath(<<>>)],
      [ext |-> "pdf", path |-> GoodPath(OnePageDoc)],
      [ext |-> "PDF", path |-> GoodPath(OnePageDoc)],
      [ext |-> "pdf", path |-> GoodPath(NoPageDoc)],
      [ext |-> "pdf", path |-> PathFacts(TRUE, TRUE, TRUE, TRUE, TRUE, TRUE, FALSE, <<>>)] }

FileNames == {[file_name |-> "a", modified_ts |-> 2], [file_name |-> "B", modified_ts |-> 1]}

InvoiceFiles ==
    {[file_name |-> n.file_name, modified_ts |-> n.modified_ts,
      ext |-> k.ext, path |-> k.path] : n \in FileNames, k \in FileKinds}

SortModes == {"FileNameAsc", "ModifiedAsc", "Custom"}

(* Option<String>: <<>> is None, <<s>> is Some(s). *)
OutputFileNames == {<<>>, <<"  ">>, <<"out">>, <<"out.PDF">>}

Requests ==
    [folder           : {"ok", "missing", "nocanon"},
     files            : UNION {[1..n -> InvoiceFiles] : n \in 0..MaxFiles},
     sort_mode        : SortModes,
     output_file_name : OutputFileNames]

(* sort_by / sort_by_key: a stable sort on key, a function of the elements. *)
InsertByKey(sorted, x, key) ==
    LET n == Cardinality({i \in 1..Len(sorted) : key[sorted[i]] <= key[x]})
    IN  SubSeq(sorted, 1, n) \o <<x>> \o SubSeq(sorted, n + 1, Len(sorted))

RECURSIVE SortByKey(_, _, _)
SortByKey(s, i, key) ==
    IF i = 0 THEN <<>> ELSE InsertByKey(SortByKey(s, i - 1, key), s[i], key)

(* The match on req.sort_mode. *)
SortFiles(fs, sort_mode) ==
    CASE sort_mode = "FileNameAsc" ->
            SortByKey(fs, Len(fs),
                [f \in InvoiceFiles |-> StringOrder[ToLowercase(f.file_name)]])
      [] sort_mode = "ModifiedAsc" ->
            SortByKey(fs, Len(fs), [f \in InvoiceFiles |-> f.modified_ts])
      [] OTHER -> fs

(* convert_image_to_pdf: ok, and whether the temporary file was made and   *)
(* whether it outlives the call (its TempPath is returned) or is dropped   *)
(* with the NamedTempFile on the error return.                             *)
ConvertImageToPdf(file) ==
    IF ~file.path.decode_ok THEN [ok |-> FALSE, made |-> FALSE, kept |-> FALSE]
    ELSE IF ~file.path.temp_ok THEN [ok |-> FALSE, made |-> FALSE, kept |-> FALSE]
    ELSE IF ~file.path.save_ok THEN [ok |-> FALSE, made |-> TRUE, kept |-> FALSE]
    ELSE [ok |-> TRUE, made |-> TRUE, kept |-> TRUE]

(* failed.push(file.file_name.clone()) *)
PushFailed(list, file) == Append(list, file.file_name)

(* A final else that records nothing. *)
OtherExtensionArm_Silent(list, file) == list

(* The final else of the loop body: an extension that is neither pdf nor an image. *)
OtherExtensionArm(list, file) == PushFailed(list, file)

(* A drop that leaves the files on disk. *)
DropTempPaths_Leak(on_disk, paths) == on_disk

(* Dropping a Vec<TempPath> deletes the files. *)
DropTempPaths(on_disk, paths) == on_disk \ {paths[i] : i \in 1..Len(paths)}

(* The output name: lines 204-218. *)
DefaultOutputName == "merged_invoices_ts.pdf"
Trimmed(name) == IF name = "  " THEN "" ELSE name
EndsWithPdf(name) == name \in {"out.pdf", "out.PDF"}
WithPdfSuffix(name) == IF name = "out" THEN "out.pdf" ELSE "other.pdf"

ResolveOutputName(output_file_name) ==
    IF output_file_name = <<>> THEN DefaultOutputName
    ELSE LET name == output_file_name[1] IN
         IF Trimmed(name) = "" THEN DefaultOutputName
         ELSE IF EndsWithPdf(name) THEN name
         ELSE WithPdfSuffix(name)

(* A success flag that demands that no file failed. *)
SuccessFlag_NoFailure(nfailed, total_files) == nfailed = 0

(* success: failed.len() < total_files *)
SuccessFlag(nfailed, total_files) == nfailed < total_files

(* The message: Some(count) when a file failed, else None. *)
MessageOf(list) == IF list = <<>> THEN <<>> ELSE <<Len(list)>>

(* Lines 224-235. *)
MergeResultOf(list, total_files, output_path) ==
    [kind |-> "Ok",
     success |-> SuccessFlag(Len(list), total_files),
     output_path |-> output_path,
     failed_files |-> list,
     message |-> MessageOf(list)]

Err(e) == [kind |-> "Err", error |-> e]

(* What Document::load finds at a path of pdf_inputs: the file of the      *)
(* request, or the temporary file if it is still on disk.                  *)
ContentAt(input, request_files, on_disk) ==
    IF input.temp
    THEN [readable |-> input.at \in on_disk, doc |-> SynthesizedDoc]
    ELSE [readable |-> request_files[input.at].path.readable,
          doc |-> request_files[input.at].path.doc]

(* The loop of merge_pdf_files over already known contents. *)
RECURSIVE LoadAll(_, _, _)
LoadAll(docs, i, st) ==
    IF i > Len(docs) THEN [ok |-> TRUE, st |-> st]
    ELSE IF ~docs[i].readable THEN [ok |-> FALSE, st |-> st]
    ELSE LoadAll(docs, i + 1, LoadInto(st, docs[i].doc))

(* merge_pdf_files as one call. *)
MergePdfFiles(docs, saved) ==
    IF docs = <<>> THEN [result |-> "NoFiles", written |-> FALSE]
    ELSE LET l == LoadAll(docs, 1, MergeStart) IN
         IF ~l.ok THEN [result |-> "Pdf", written |-> FALSE]
         ELSE LET r == AssembleResult(l.st, saved)
              IN  [result |-> r.result, written |-> r.written]

MergeIdle ==
    /\ mpc = "idle"
    /\ files = <<>>
    /\ loaded = <<>>
    /\ watermarks = <<1>>
    /\ documents_pages = <<>>
    /\ documents_objects = EmptyMap
    /\ max_id = 1
    /\ processed = 0
    /\ catalog_object = <<>>
    /\ pages_object = <<>>
    /\ document = EmptyDocument
    /\ merge_result = "none"

InvInit ==
    /\ pc = "start"
    /\ req \in Requests
    /\ index = 0
    /\ pdf_inputs = <<>>
    /\ temp_paths = <<>>
    /\ failed = <<>>
    /\ temp_files = {}
    /\ created = {}
    /\ ret = NoReturn
    /\ output_file = "absent"
    /\ MergeIdle
    /\ ImgIdle

(* Lines 136-153: the folder, the sort, the empty request. *)
InvStart ==
    /\ pc = "start"
    /\ IF req.folder = "missing"
       THEN /\ ret' = Err("InvalidFolder") /\ pc' = "done" /\ req' = req
       ELSE IF req.folder = "nocanon"
       THEN /\ ret' = Err("Io") /\ pc' = "done" /\ req' = req
       ELSE /\ req' = [req EXCEPT !.files = SortFiles(@, req.sort_mode)]
            /\ IF Len(req.files) = 0
               THEN ret' = Err("NoFiles") /\ pc' = "done"
               ELSE ret' = ret /\ pc' = "loop"
    /\ UNCHANGED <<index, pdf_inputs, temp_paths, failed, temp_files, created,
                   output_file, mergeVars, imgVars>>

(* One iteration of the loop over req.files: lines 159-198. *)
InvScanFile ==
    /\ pc = "loop"
    /\ index < Len(req.files)
    /\ LET at   == index + 1
           file == req.files[at]
           ext  == ToAsciiLowercase(file.ext)
           conv == ConvertImageToPdf(file)
       IN  IF ~file.path.exists \/ ~file.path.canon_ok \/ ~file.path.inside
           THEN /\ failed' = PushFailed(failed, file)
                /\ UNCHANGED <<pdf_inputs, temp_paths, temp_files, created>>
           ELSE IF ext = "pdf"
           THEN /\ pdf_inputs' = Append(pdf_inputs, [temp |-> FALSE, at |-> at])
                /\ UNCHANGED <<failed, temp_paths, temp_files, created>>
           ELSE IF ext \in IMAGE_EXTENSIONS
           THEN /\ created' = IF conv.made THEN created \cup {at} ELSE created
                /\ temp_files' = IF conv.kept THEN temp_files \cup {at} ELSE temp_files
                /\ IF conv.ok
                   THEN /\ pdf_inputs' = Append(pdf_inputs, [temp |-> TRUE, at |-> at])
                        /\ temp_paths' = Append(temp_paths, at)
                        /\ failed' = failed
                   ELSE /\ failed' = PushFailed(failed, file)
                        /\ UNCHANGED <<pdf_inputs, temp_paths>>
           ELSE /\ failed' = OtherExtensionArm(failed, file)
                /\ UNCHANGED <<pdf_inputs, temp_paths, temp_files, created>>
    /\ index' = index + 1
    /\ UNCHANGED <<pc, req, ret, output_file, mergeVars, imgVars>>

(* Lines 200-202: no document source. *)
InvLoopExit ==
    /\ pc = "loop"
    /\ index = Len(req.files)
    /\ IF pdf_inputs = <<>>
       THEN /\ ret' = Err("NoFiles")
            /\ pc' = "done"
            /\ temp_files' = DropTempPaths(temp_files, temp_paths)
       ELSE /\ pc' = "merge"
            /\ UNCHANGED <<ret, temp_files>>
    /\ UNCHANGED <<req, index, pdf_inputs, temp_paths, failed, created,
                   output_file, mergeVars, imgVars>>

(* Lines 204-236: the output name, the call of merge_pdf_files, the result, *)
(* and the drop of temp_paths on either return.                            *)
InvMerge ==
    /\ pc = "merge"
    /\ \E r \in {MergePdfFiles([i \in 1..Len(pdf_inputs) |->
                                     ContentAt(pdf_inputs[i], req.files, temp_files)],
                                 saved) : saved \in BOOLEAN} :
              /\ output_file' = IF r.written THEN "written" ELSE output_file
              /\ ret' = IF r.result = "Ok"
                        THEN MergeResultOf(failed, Len(req.files),
                                           ResolveOutputName(req.output_file_name))
                        ELSE Err(r.result)
    /\ temp_files' = DropTempPaths(temp_files, temp_paths)
    /\ pc' = "done"
    /\ UNCHANGED <<req, index, pdf_inputs, temp_paths, failed, created, mergeVars, imgVars>>

InvNext == InvStart \/ InvScanFile \/ InvLoopExit \/ InvMerge

SpecInvoices == InvInit /\ [][InvNext]_vars

(***************************************************************************)
(* convert_image_to_pdf: the decoded image is flattened, then placed on    *)
(* the page.  An image is its DynamicImage variant, its dimensions and the *)
(* channels of one pixel of it.                                            *)
(***************************************************************************)
MaxDim == 3
PAGE_WIDTH_MM == 210
PAGE_HEIGHT_MM == 297

Variants == {"ImageLuma8", "ImageLumaA8", "ImageRgb8", "ImageRgba8",
             "ImageLuma16", "ImageLumaA16", "ImageRgb16", "ImageRgba16",
             "ImageRgb32F", "ImageRgba32F"}

HasAlpha(variant) ==
    variant \in {"ImageLumaA8", "ImageRgba8", "ImageLumaA16", "ImageRgba16", "ImageRgba32F"}

ColourChannels(variant) ==
    IF variant \in {"ImageLuma8", "ImageLumaA8", "ImageLuma16", "ImageLumaA16"} THEN 1 ELSE 3

Channels(variant) == ColourChannels(variant) + (IF HasAlpha(variant) THEN 1 ELSE 0)

(* Sample channel values of each depth (a float channel in thousandths). *)
Samples(variant) ==
    IF variant \in {"ImageLuma8", "ImageLumaA8", "ImageRgb8", "ImageRgba8"}
    THEN {0, 100, 255}
    ELSE IF variant \in {"ImageRgb32F", "ImageRgba32F"}
    THEN {0, 500, 1000}
    ELSE {0, 30000, 65535}

Pixels(variant) ==
    {[i \in 1..Channels(variant) |->
         IF i <= ColourChannels(variant) THEN c ELSE a] :
            c \in Samples(variant), a \in Samples(variant)}

Images ==
    {[variant |-> v, width |-> w, height |-> h, pixel |-> px] :
        v \in Variants, w \in 0..MaxDim, h \in 0..MaxDim, px \in UNION {Pixels(u) : u \in Variants}}

DecodedImages == {im \in Images : im.pixel \in Pixels(im.variant)}

(* blend_channel: round(channel * alpha + 255 * (1 - alpha)), alpha = a / 255. *)
BlendChannel(channel, a) ==
    LET twice == 2 * (channel * a + 255 * (255 - a))
        v     == (twice + 255) \div 510
    IN  IF v < 0 THEN 0 ELSE IF v > 255 THEN 255 ELSE v

(* flatten_rgba on one pixel. *)
FlattenRgba(px) ==
    <<BlendChannel(px[1], px[4]), BlendChannel(px[2], px[4]), BlendChannel(px[3], px[4])>>

(* to_rgba8 of a 16-bit pixel: each channel to 8 bits, rounded. *)
ToRgba8(px) == [i \in 1..4 |-> (px[i] + 128) \div 257]

(* flatten_transparent: the two arms, and the image itself otherwise. *)
FlattenTransparent(im) ==
    CASE im.variant = "ImageRgba8" ->
            [im EXCEPT !.variant = "ImageRgb8", !.pixel = FlattenRgba(im.pixel)]
      [] im.variant = "ImageRgba16" ->
            [im EXCEPT !.variant = "ImageRgb8", !.pixel = FlattenRgba(ToRgba8(im.pixel))]
      [] OTHER -> im

(* f64 values: a fraction num/den (den > 0), an infinity or a NaN. *)
Fin(n, d) == [kind |-> "fin", num |-> n, den |-> d]
Inf == [kind |-> "inf", num |-> 1, den |-> 1]
NegInf == [kind |-> "inf", num |-> -1, den |-> 1]
NaN == [kind |-> "nan", num |-> 0, den |-> 1]

(* img_w as f64 / img_h as f64 *)
Aspect(img_w, img_h) ==
    IF img_h = 0
    THEN (IF img_w = 0 THEN NaN ELSE Inf)
    ELSE Fin(img_w, img_h)

(* c / x for a positive number c *)
DivideBy(c, x) ==
    CASE x.kind = "nan" -> NaN
      [] x.kind = "inf" -> Fin(0, 1)
      [] x.num = 0 -> Inf
      [] OTHER -> Fin(c * x.den, x.num)

(* c * x for a positive number c *)
Times(c, x) ==
    CASE x.kind = "nan" -> NaN
      [] x.kind = "inf" -> x
      [] OTHER -> Fin(c * x.num, x.den)

(* x > c *)
GreaterThan(x, c) ==
    CASE x.kind = "nan" -> FALSE
      [] x.kind = "inf" -> x.num > 0
      [] OTHER -> x.num > c * x.den

(* (c - x) / 2.0 *)
HalfOfRest(c, x) ==
    CASE x.kind = "nan" -> NaN
      [] x.kind = "inf" -> (IF x.num > 0 THEN NegInf ELSE Inf)
      [] OTHER -> Fin(c * x.den - x.num, 2 * x.den)

(* Lines 279-289. *)
PagePlacement(img_w, img_h) ==
    LET aspect   == Aspect(img_w, img_h)
        first_h  == DivideBy(PAGE_WIDTH_MM, aspect)
        tall     == GreaterThan(first_h, PAGE_HEIGHT_MM)
        display_h == IF tall THEN Fin(PAGE_HEIGHT_MM, 1) ELSE first_h
        display_w == IF tall THEN Times(PAGE_HEIGHT_MM, aspect) ELSE Fin(PAGE_WIDTH_MM, 1)
    IN  [set |-> TRUE,
         display_w |-> display_w,
         display_h |-> display_h,
         offset_x  |-> HalfOfRest(PAGE_WIDTH_MM, display_w),
         offset_y  |-> HalfOfRest(PAGE_HEIGHT_MM, display_h)]

ImgInit ==
    /\ ipc = "decoded"
    /\ decoded \in DecodedImages
    /\ image = decoded
    /\ placement = NoPlacement
    /\ output_file = "absent"
    /\ MergeIdle
    /\ InvIdle

(* let image = flatten_transparent(load_dynamic_image(path)?) *)
ImgFlatten ==
    /\ ipc = "decoded"
    /\ image' = FlattenTransparent(decoded)
    /\ ipc' = "flattened"
    /\ UNCHANGED <<decoded, placement, output_file, mergeVars, invVars>>

(* The placement of the flattened image on the page. *)
ImgPlace ==
    /\ ipc = "flattened"
    /\ placement' = PagePlacement(image.width, image.height)
    /\ ipc' = "placed"
    /\ UNCHANGED <<decoded, image, output_file, mergeVars, invVars>>

ImgNext == ImgFlatten \/ ImgPlace

SpecImage == ImgInit /\ [][ImgNext]_vars

(* Either entry point. *)
Init == MergeInit \/ InvInit \/ ImgInit

Next == MergeNext \/ InvNext \/ ImgNext

Spec == Init /\ [][Next]_vars

(***************************************************************************)
(* Properties of merge_pdf_files, stated on the documents it loaded.       *)
(***************************************************************************)
(* The objects <<k, p>> (object p of source k) of loaded whose kind is in  *)
(* kinds, from object p of source k on, in source order.                   *)
RECURSIVE OriginsFrom(_, _, _)
OriginsFrom(kinds, k, p) ==
    IF k > Len(loaded) THEN <<>>
    ELSE IF p > Len(loaded[k]) THEN OriginsFrom(kinds, k + 1, 1)
    ELSE (IF loaded[k][p] \in kinds THEN << <<k, p>> >> ELSE <<>>)
            \o OriginsFrom(kinds, k, p + 1)

KindsOf(role) == {kind \in ObjectKinds : kind.role = role}

ExpectedPages == OriginsFrom(KindsOf("Page"), 1, 1)
LoadedCatalogs == OriginsFrom(KindsOf("Catalog"), 1, 1)
LoadedPagesDictionaries == OriginsFrom({Dict("Pages")}, 1, 1)

(* The identifier object <<k, p>> was renumbered to. *)
IdentifierOf(o) == watermarks[o[1]] + o[2] - 1

SetOf(seq) == {seq[i] : i \in 1..Len(seq)}

AllLoaded == mpc = "done" /\ Len(loaded) = Len(files)

(* C1: after a successful merge the Kids of the Pages root reference       *)
(* exactly the collected Page objects in source order, Count is their      *)
(* number, and each of them is in the output with its Parent set to the    *)
(* Pages root.                                                             *)
C1_PageTree ==
    merge_result = "Ok" =>
        \E root \in DOMAIN document.objects :
            LET r == document.objects[root] IN
            /\ r.role = "Pages"
            /\ r.Count = Len(ExpectedPages)
            /\ Len(r.Kids) = Len(ExpectedPages)
            /\ \A i \in 1..Len(r.Kids) :
                  /\ r.Kids[i] \in DOMAIN document.objects
                  /\ document.objects[r.Kids[i]].role = "Page"
                  /\ document.objects[r.Kids[i]].origin = ExpectedPages[i]
                  /\ document.objects[r.Kids[i]].Parent = root

(* C2: after a successful merge the output holds exactly one Catalog and   *)
(* exactly one Pages object, the trailer Root is that Catalog and its      *)
(* Pages entry is that Pages object.                                       *)
C2_SingleRoots ==
    merge_result = "Ok" =>
        LET catalogs == {id \in DOMAIN document.objects :
                            document.objects[id].role = "Catalog"}
            roots    == {id \in DOMAIN document.objects :
                            document.objects[id].role = "Pages"}
        IN  /\ Cardinality(catalogs) = 1
            /\ Cardinality(roots) = 1
            /\ document.Root \in catalogs
            /\ document.objects[document.Root].Pages \in roots

(* C3: the watermark never decreases, source k is renumbered to start at   *)
(* the watermark it found, the identifier ranges of distinct sources are   *)
(* disjoint, every object loaded is still found under its own identifier   *)
(* (no insertion overwrote or duplicated one), and no object appears twice *)
(* in the output.                                                          *)
C3_DisjointIdentifiers ==
    mpc # "idle" =>
        /\ Len(watermarks) = Len(loaded) + 1
        /\ watermarks[1] = 1
        /\ max_id = watermarks[Len(watermarks)]
        /\ \A k \in 1..Len(loaded) :
              /\ watermarks[k] <= watermarks[k + 1]
              /\ \A j \in 1..(k - 1) : watermarks[j + 1] <= watermarks[k]
              /\ \A p \in 1..Len(loaded[k]) :
                    LET id == IdentifierOf(<<k, p>>) IN
                    /\ watermarks[k] <= id /\ id < watermarks[k + 1]
                    /\ IF loaded[k][p].role = "Page"
                       THEN /\ id \notin DOMAIN documents_objects
                            /\ Cardinality({i \in 1..Len(documents_pages) :
                                               documents_pages[i][1] = id}) = 1
                            /\ \E i \in 1..Len(documents_pages) :
                                  /\ documents_pages[i][1] = id
                                  /\ documents_pages[i][2].origin = <<k, p>>
                       ELSE /\ id \in DOMAIN documents_objects
                            /\ documents_objects[id].origin = <<k, p>>
        /\ \A i, j \in DOMAIN document.objects :
              document.objects[i].origin = document.objects[j].origin => i = j

(* Two sources that both hold objects were merged into an output. *)
C3_Witness ==
    /\ merge_result = "Ok"
    /\ Len(loaded) = 2
    /\ Len(loaded[1]) >= 2
    /\ Len(loaded[2]) >= 2

(* C10 as stated: the canonical Catalog and the canonical Pages root are   *)
(* the first instances met (of the Pages objects, the first the "Pages"    *)
(* arm takes up: the first dictionary), with the identifier and the        *)
(* content of that instance alone.                                         *)
C10_FirstInstances ==
    (AllLoaded /\ documents_pages # <<>>) =>
        /\ LoadedCatalogs # <<>> =>
              /\ catalog_object # <<>>
              /\ catalog_object[1] = IdentifierOf(LoadedCatalogs[1])
              /\ catalog_object[2].origin = LoadedCatalogs[1]
              /\ catalog_object[2].content = {LoadedCatalogs[1]}
        /\ LoadedPagesDictionaries # <<>> =>
              /\ pages_object # <<>>
              /\ pages_object[1] = IdentifierOf(LoadedPagesDictionaries[1])
              /\ pages_object[2].origin = LoadedPagesDictionaries[1]
              /\ pages_object[2].content = {LoadedPagesDictionaries[1]}

(* C10 amended: the canonical Catalog is the first Catalog met, with its   *)
(* identifier and its content alone; the canonical Pages root has the      *)
(* identifier of the last Pages dictionary met, and its dictionary is that *)
(* one extended with the dictionaries of all the Pages dictionaries met    *)
(* before; a Pages object that is no dictionary is passed over; no other   *)
(* Catalog or Pages object is in the output.                               *)
C10_CanonicalRoots ==
    (AllLoaded /\ documents_pages # <<>>) =>
        /\ IF LoadedCatalogs = <<>> THEN catalog_object = <<>>
           ELSE /\ catalog_object # <<>>
                /\ catalog_object[1] = IdentifierOf(LoadedCatalogs[1])
                /\ catalog_object[2].origin = LoadedCatalogs[1]
                /\ catalog_object[2].content = {LoadedCatalogs[1]}
        /\ IF LoadedPagesDictionaries = <<>> THEN pages_object = <<>>
           ELSE LET last == LoadedPagesDictionaries[Len(LoadedPagesDictionaries)] IN
                /\ pages_object # <<>>
                /\ pages_object[1] = IdentifierOf(last)
                /\ pages_object[2].origin = last
                /\ pages_object[2].content = SetOf(LoadedPagesDictionaries)
        /\ merge_result = "Ok" =>
              \A id \in DOMAIN document.objects :
                  LET obj == document.objects[id] IN
                  /\ obj.role = "Catalog" => obj.origin = catalog_object[2].origin
                  /\ obj.role = "Pages" =>
                        /\ obj.origin = pages_object[2].origin
                        /\ obj.content = pages_object[2].content

(* A successful merge of two sources that each hold a Pages dictionary. *)
C10_Witness ==
    /\ merge_result = "Ok"
    /\ Len(LoadedPagesDictionaries) >= 2
    /\ LoadedPagesDictionaries[1][1] # LoadedPagesDictionaries[2][1]

(***************************************************************************)
(* Properties of merge_invoices, stated on the request.                    *)
(***************************************************************************)
(* A file the loop must record as failed: it does not exist, does not      *)
(* canonicalize, lies outside the folder, has an extension that is neither *)
(* pdf nor an image, or is an image whose conversion fails.                *)
IsImage(file) == ToAsciiLowercase(file.ext) \in IMAGE_EXTENSIONS
IsPdf(file) == ToAsciiLowercase(file.ext) = "pdf"

Rejected(file) ==
    \/ ~file.path.exists
    \/ ~file.path.canon_ok
    \/ ~file.path.inside
    \/ ~IsPdf(file) /\ ~IsImage(file)
    \/ IsImage(file) /\ ~(file.path.decode_ok /\ file.path.temp_ok /\ file.path.save_ok)

NamesOf(fs) == [i \in 1..Len(fs) |-> fs[i].file_name]

RejectedNames(fs) == NamesOf(SelectSeq(fs, Rejected))

(* The document sources of the first n files, in their order. *)
RECURSIVE SourcesOf(_, _)
SourcesOf(fs, n) ==
    IF n = 0 THEN <<>>
    ELSE SourcesOf(fs, n - 1)
            \o (IF Rejected(fs[n]) THEN <<>>
                ELSE <<[temp |-> IsImage(fs[n]), at |-> n]>>)

Scanning == pc \in {"loop", "merge"} \/ (pc = "done" /\ index > 0)

(* The request was taken up: the folder is valid and canonicalizes. *)
TakenUp == pc = "done" /\ req.folder = "ok"

(* The sources of the request hold no Page object, and all can be loaded. *)
NoPageInRequest ==
    \A i \in 1..Len(req.files) :
        Rejected(req.files[i])
            \/ (/\ IsPdf(req.files[i])
                /\ req.files[i].path.readable
                /\ \A p \in 1..Len(req.files[i].path.doc) :
                       req.files[i].path.doc[p].role # "Page")

C5_FailuresRecorded ==
    Scanning =>
        /\ failed = RejectedNames(SubSeq(req.files, 1, index))
        /\ pdf_inputs = SourcesOf(req.files, index)
        /\ Len(failed) + Len(pdf_inputs) = index
        /\ pc = "loop" => ret = NoReturn
        /\ pc \in {"merge", "done"} => index = Len(req.files)

(* A rejected file was followed by one that became a source, and merged. *)
C5_Witness ==
    /\ pc = "done"
    /\ ret.kind = "Ok"
    /\ Len(req.files) = 2
    /\ Rejected(req.files[1])
    /\ ~req.files[1].path.inside
    /\ ~Rejected(req.files[2])

(* C6: a MergeResult has success = (failed < total), failed_files the      *)
(* display names of the rejected files in order, an output path, and a     *)
(* message exactly when a file failed.                                     *)
C6_MergeResult ==
    ret.kind = "Ok" =>
        /\ ret.success = (Len(RejectedNames(req.files)) < Len(req.files))
        /\ ret.failed_files = RejectedNames(req.files)
        /\ ret.output_path # ""
        /\ (ret.message # <<>>) = (RejectedNames(req.files) # <<>>)

(* A result that reports a failed file. *)
C6_Witness ==
    /\ ret.kind = "Ok"
    /\ ret.failed_files # <<>>
    /\ ret.message = <<1>>

(* C7: every temporary file handed to merge_pdf_files is on disk when it   *)
(* is called, the files on disk are those temp_paths owns, and once        *)
(* merge_invoices has returned none of the files it created is left.       *)
C7_TemporaryFiles ==
    /\ temp_files \subseteq created
    /\ pc \in {"loop", "merge"} => temp_files = SetOf(temp_paths)
    /\ pc = "merge" =>
          \A i \in 1..Len(pdf_inputs) :
              pdf_inputs[i].temp => pdf_inputs[i].at \in temp_files
    /\ pc = "done" => temp_files = {}

(* A run that created temporary files returned. *)
C7_Witness ==
    /\ pc = "done"
    /\ Cardinality(created) = 2
    /\ temp_paths # <<>>
    /\ Len(temp_paths) < 2

(***************************************************************************)
(* Properties of convert_image_to_pdf.                                     *)
(***************************************************************************)
(* C8: an image decoded with an alpha channel is flattened to three        *)
(* channels without alpha.                                                 *)
C8_AlphaFlattened ==
    (ipc \in {"flattened", "placed"} /\ HasAlpha(decoded.variant)) =>
        /\ ~HasAlpha(image.variant)
        /\ Channels(image.variant) = 3
        /\ Len(image.pixel) = 3

(* x <= c, x = c and x >= 0 on f64 values: false of a NaN. *)
AtMost(x, c) ==
    CASE x.kind = "nan" -> FALSE
      [] x.kind = "inf" -> x.num < 0
      [] OTHER -> x.num <= c * x.den

EqualTo(x, c) == x.kind = "fin" /\ x.num = c * x.den

NonNegative(x) ==
    CASE x.kind = "nan" -> FALSE
      [] OTHER -> x.num >= 0

(* C9: for every width and height the placed image is at most 210 wide and *)
(* 297 high, one of the two exactly, and both offsets are non-negative.    *)
C9_WithinPage ==
    ipc = "placed" =>
        /\ AtMost(placement.display_w, PAGE_WIDTH_MM)
        /\ AtMost(placement.display_h, PAGE_HEIGHT_MM)
        /\ \/ EqualTo(placement.display_w, PAGE_WIDTH_MM)
           \/ EqualTo(placement.display_h, PAGE_HEIGHT_MM)
        /\ NonNegative(placement.offset_x)
        /\ NonNegative(placement.offset_y)

====
